---- MODULE Spec2Model ----
(***************************************************************************)
(* IT Report System (Cloudflare Worker + D1): the report / evidence store  *)
(* and the request handlers that read and write it.                        *)
(*                                                                         *)
(* The store is the D1 database created by schema.sql; every prepared      *)
(* statement a handler runs is one atomic step.  Requests are handled by   *)
(* independent invocations of fetch, so the statements of two requests     *)
(* interleave freely.  Text is a sequence of one-character strings, so     *)
(* LIKE, startsWith, split and atob are computed, not assumed.             *)
(***************************************************************************)
EXTENDS Integers, Sequences, FiniteSets, TLC

VARIABLES
    reports,       \* table reports
    images,        \* table images
    system_stats,  \* table system_stats
    r2Objects,     \* keys put into the R2 bucket
    r2Bucket,      \* whether env.R2_BUCKET is bound
    faults,        \* whether a store call may throw
    now,           \* Date.now()
    pc,            \* per invocation: the statement it runs next
    req,           \* per invocation: the request
    loc,           \* per invocation: the handler's locals
    resp,          \* per invocation: the response
    nreq,          \* requests that may still be received
    assigned       \* report_ids given to created reports so far (history)

vars == <<reports, images, system_stats, r2Objects, r2Bucket, faults, now,
          pc, req, loc, resp, nreq, assigned>>

(***************************************************************************)
(* Bounds of the exploration.                                              *)
(***************************************************************************)
MaxRequests == 2
MaxClock == 2
MaxLifecycleRequests == 3
MaxAggRequests == 2
MaxAggClock == 6

Procs == {"p1", "p2"}

(***************************************************************************)
(* Text helpers.                                                           *)
(***************************************************************************)
Lowercase ==
    [A |-> "a", B |-> "b", C |-> "c", D |-> "d", E |-> "e", F |-> "f",
     G |-> "g", H |-> "h", I |-> "i", J |-> "j", K |-> "k", L |-> "l",
     M |-> "m", N |-> "n", O |-> "o", P |-> "p", Q |-> "q", R |-> "r",
     S |-> "s", T |-> "t", U |-> "u", V |-> "v", W |-> "w", X |-> "x",
     Y |-> "y", Z |-> "z"]

Fold(c) == IF c \in DOMAIN Lowercase THEN Lowercase[c] ELSE c

Whitespace == {" "}

RECURSIVE TrimLeft(_)
TrimLeft(s) ==
    IF s # <<>> /\ Head(s) \in Whitespace THEN TrimLeft(Tail(s)) ELSE s

RECURSIVE TrimRight(_)
TrimRight(s) ==
    IF s # <<>> /\ s[Len(s)] \in Whitespace
    THEN TrimRight(SubSeq(s, 1, Len(s) - 1))
    ELSE s

Trim(s) == TrimRight(TrimLeft(s))

StartsWith(s, prefix) ==
    /\ Len(s) >= Len(prefix)
    /\ SubSeq(s, 1, Len(prefix)) = prefix

IsSubstring(q, s) ==
    \E i \in 1..(Len(s) - Len(q) + 1) : SubSeq(s, i, i + Len(q) - 1) = q

Positions(s, c) == {i \in 1..Len(s) : s[i] = c}

Min(S) == CHOOSE x \in S : \A y \in S : x <= y

SplitComma(s) ==
    LET commas == Positions(s, ",")
    IN  IF commas = {} THEN <<s>>
        ELSE LET first == Min(commas)
                 rest == commas \ {first}
                 stop == IF rest = {} THEN Len(s) + 1 ELSE Min(rest)
             IN  <<SubSeq(s, 1, first - 1), SubSeq(s, first + 1, stop - 1)>>

RECURSIVE LikeAt(_, _, _, _)
LikeAt(pat, i, txt, j) ==
    IF i > Len(pat) THEN j > Len(txt)
    ELSE IF pat[i] = "%"
         THEN \E k \in j..(Len(txt) + 1) : LikeAt(pat, i + 1, txt, k)
         ELSE /\ j <= Len(txt)
              /\ (pat[i] = "_" \/ Fold(pat[i]) = Fold(txt[j]))
              /\ LikeAt(pat, i + 1, txt, j + 1)

Like(txt, pat) == LikeAt(pat, 1, txt, 1)

SearchTerm(q) == <<"%">> \o q \o <<"%">>

(***************************************************************************)
(* atob / btoa.                                                            *)
(***************************************************************************)
B64Alphabet ==
    <<"A", "B", "C", "D", "E", "F", "G", "H", "I", "J", "K", "L", "M", "N", "O", "P", "Q", "R", "S", "T", "U", "V", "W", "X", "Y", "Z", "a", "b", "c", "d", "e", "f", "g", "h", "i", "j", "k", "l", "m", "n", "o", "p", "q", "r", "s", "t", "u", "v", "w", "x", "y", "z", "0", "1", "2", "3", "4", "5", "6", "7", "8", "9", "+", "/">>

B64Value(c) == (CHOOSE i \in 1..Len(B64Alphabet) : B64Alphabet[i] = c) - 1

IsB64Char(c) == \E i \in 1..Len(B64Alphabet) : B64Alphabet[i] = c

RECURSIVE StripPadding(_, _)
StripPadding(s, n) ==
    IF n > 0 /\ s # <<>> /\ s[Len(s)] = "="
    THEN StripPadding(SubSeq(s, 1, Len(s) - 1), n - 1)
    ELSE s

AtobBody(s) == IF Len(s) % 4 = 0 THEN StripPadding(s, 2) ELSE s

AtobOk(s) ==
    /\ \A i \in 1..Len(AtobBody(s)) : IsB64Char(AtobBody(s)[i])
    /\ Len(AtobBody(s)) % 4 # 1

RECURSIVE AtobGroups(_)
AtobGroups(b) ==
    IF Len(b) >= 4
    THEN LET n == B64Value(b[1]) * 262144 + B64Value(b[2]) * 4096
                  + B64Value(b[3]) * 64 + B64Value(b[4])
         IN  <<n \div 65536, (n \div 256) % 256, n % 256>>
             \o AtobGroups(SubSeq(b, 5, Len(b)))
    ELSE IF Len(b) = 3
    THEN LET n == B64Value(b[1]) * 4096 + B64Value(b[2]) * 64 + B64Value(b[3])
         IN  <<n \div 1024, (n \div 4) % 256>>
    ELSE IF Len(b) = 2
    THEN <<(B64Value(b[1]) * 64 + B64Value(b[2])) \div 16>>
    ELSE <<>>

Atob(s) == AtobGroups(AtobBody(s))

RECURSIVE Btoa(_)
Btoa(bytes) ==
    IF Len(bytes) >= 3
    THEN LET n == bytes[1] * 65536 + bytes[2] * 256 + bytes[3]
         IN  <<B64Alphabet[(n \div 262144) + 1],
               B64Alphabet[((n \div 4096) % 64) + 1],
               B64Alphabet[((n \div 64) % 64) + 1],
               B64Alphabet[(n % 64) + 1]>>
             \o Btoa(SubSeq(bytes, 4, Len(bytes)))
    ELSE IF Len(bytes) = 2
    THEN LET n == bytes[1] * 1024 + bytes[2] * 4
         IN  <<B64Alphabet[(n \div 4096) + 1],
               B64Alphabet[((n \div 64) % 64) + 1],
               B64Alphabet[(n % 64) + 1], "=">>
    ELSE IF Len(bytes) = 1
    THEN LET n == bytes[1] * 16
         IN  <<B64Alphabet[(n \div 64) + 1], B64Alphabet[(n % 64) + 1],
               "=", "=">>
    ELSE <<>>

(***************************************************************************)
(* The store: schema.sql.                                                  *)
(***************************************************************************)
StatusesUnchecked ==
    {"on-progress", "completed", "pending", "cancelled", "archived"}

Statuses == {"on-progress", "completed", "pending", "cancelled"}

Priorities == {"critical", "high", "medium", "low"}

SeedReports == {
    [rowid |-> 1, id |-> "rep_1",
     report_id |-> <<"R", "E", "P", "-", "2", "0", "2", "4", "-", "0", "0", "1">>,
     server_name |-> <<"W", "E", "B", "-", "S", "V", "R", "-", "0", "1">>,
     ip_address |-> <<"1", "9", "2", ".", "1", "6", "8", ".", "1", ".", "1", "0">>,
     description |-> <<"S", "e", "r", "v", "e", "r", " ", "o", "v", "e", "r", "l", "o", "a", "d", " ", "d", "u", "r", "i", "n", "g", " ", "p", "e", "a", "k", " ", "h", "o", "u", "r", "s">>,
     status |-> "on-progress", priority |-> "high", platform |-> "Zabbix",
     created_by |-> "System", created_at |-> 0],
    [rowid |-> 2, id |-> "rep_2",
     report_id |-> <<"R", "E", "P", "-", "2", "0", "2", "4", "-", "0", "0", "2">>,
     server_name |-> <<"D", "B", "-", "S", "V", "R", "-", "0", "1">>,
     ip_address |-> <<"1", "9", "2", ".", "1", "6", "8", ".", "1", ".", "2", "0">>,
     description |-> <<"D", "a", "t", "a", "b", "a", "s", "e", " ", "c", "o", "n", "n", "e", "c", "t", "i", "o", "n", " ", "p", "o", "o", "l", " ", "e", "x", "h", "a", "u", "s", "t", "e", "d">>,
     status |-> "completed", priority |-> "critical", platform |-> "Prometheus",
     created_by |-> "System", created_at |-> 0],
    [rowid |-> 3, id |-> "rep_3",
     report_id |-> <<"R", "E", "P", "-", "2", "0", "2", "4", "-", "0", "0", "3">>,
     server_name |-> <<"A", "P", "I", "-", "S", "V", "R", "-", "0", "1">>,
     ip_address |-> <<"1", "9", "2", ".", "1", "6", "8", ".", "1", ".", "3", "0">>,
     description |-> <<"I", "n", "c", "r", "e", "a", "s", "e", "d", " ", "l", "a", "t", "e", "n", "c", "y", " ", "i", "n", " ", "A", "P", "I", " ", "r", "e", "s", "p", "o", "n", "s", "e", "s">>,
     status |-> "pending", priority |-> "medium", platform |-> "Grafana",
     created_by |-> "System", created_at |-> 0],
    [rowid |-> 4, id |-> "rep_4",
     report_id |-> <<"R", "E", "P", "-", "2", "0", "2", "4", "-", "0", "0", "4">>,
     server_name |-> <<"C", "A", "C", "H", "E", "-", "S", "V", "R", "-", "0", "1">>,
     ip_address |-> <<"1", "9", "2", ".", "1", "6", "8", ".", "1", ".", "4", "0">>,
     description |-> <<"R", "e", "d", "i", "s", " ", "c", "a", "c", "h", "e", " ", "m", "e", "m", "o", "r", "y", " ", "u", "s", "a", "g", "e", " ", "a", "t", " ", "9", "5", "%">>,
     status |-> "on-progress", priority |-> "high", platform |-> "Zabbix",
     created_by |-> "System", created_at |-> 0],
    [rowid |-> 5, id |-> "rep_5",
     report_id |-> <<"R", "E", "P", "-", "2", "0", "2", "4", "-", "0", "0", "5">>,
     server_name |-> <<"B", "A", "C", "K", "U", "P", "-", "S", "V", "R", "-", "0", "1">>,
     ip_address |-> <<"1", "9", "2", ".", "1", "6", "8", ".", "1", ".", "5", "0">>,
     description |-> <<"B", "a", "c", "k", "u", "p", " ", "j", "o", "b", " ", "f", "a", "i", "l", "e", "d", " ", "-", " ", "d", "i", "s", "k", " ", "s", "p", "a", "c", "e", " ", "i", "s", "s", "u", "e">>,
     status |-> "pending", priority |-> "low", platform |-> "Custom",
     created_by |-> "System", created_at |-> 0]
    }

SeedImageData1 ==
    <<"d", "a", "t", "a", ":", "i", "m", "a", "g", "e", "/", "p", "n", "g", ";", "b", "a", "s", "e", "6", "4", ",", "i", "V", "B", "O", "R", "w", "0", "K", "G", "g", "o", "A", "A", "A", "A", "N", "S", "U", "h", "E", "U", "g", "A", "A", "A", "A", "E", "A", "A", "A", "A", "B", "C", "A", "Y", "A", "A", "A", "A", "f", "F", "c", "S", "J", "A", "A", "A", "A", "D", "U", "l", "E", "Q", "V", "R", "4", "2", "m", "N", "k", "+", "M", "9", "Q", "D", "w", "A", "D", "h", "g", "G", "A", "W", "j", "R", "9", "a", "w", "A", "A", "A", "A", "B", "J", "R", "U", "5", "E", "r", "k", "J", "g", "g", "g", "=", "=">>

SeedImageData2 ==
    <<"d", "a", "t", "a", ":", "i", "m", "a", "g", "e", "/", "p", "n", "g", ";", "b", "a", "s", "e", "6", "4", ",", "i", "V", "B", "O", "R", "w", "0", "K", "G", "g", "o", "A", "A", "A", "A", "N", "S", "U", "h", "E", "U", "g", "A", "A", "A", "A", "E", "A", "A", "A", "A", "B", "C", "A", "Y", "A", "A", "A", "A", "f", "F", "c", "S", "J", "A", "A", "A", "A", "D", "U", "l", "E", "Q", "V", "R", "4", "2", "m", "N", "k", "Y", "P", "h", "f", "D", "w", "A", "C", "h", "w", "G", "A", "6", "0", "e", "6", "k", "g", "A", "A", "A", "A", "B", "J", "R", "U", "5", "E", "r", "k", "J", "g", "g", "g", "=", "=">>

SeedImages == {
    [rowid |-> 1, id |-> "img_1", report_id |-> "rep_1",
     filename |-> "server-load.png", file_size |-> 102400,
     mime_type |-> "image/png", image_data |-> SeedImageData1,
     created_at |-> 0],
    [rowid |-> 2, id |-> "img_2", report_id |-> "rep_2",
     filename |-> "database-error.png", file_size |-> 153600,
     mime_type |-> "image/png", image_data |-> SeedImageData2,
     created_at |-> 0]
    }

SeedStats ==
    {[id |-> 1, total_reports |-> 5, active_issues |-> 3,
      completed_reports |-> 1, critical_issues |-> 1]}


(***************************************************************************)
(* Constraints the schema puts on the tables, and the statements the       *)
(* handlers run.                                                           *)
(***************************************************************************)
Max(S) == CHOOSE x \in S : \A y \in S : x >= y

NextRowid(rows) == IF rows = {} THEN 1 ELSE Max({r.rowid : r \in rows}) + 1

ReportInsertOkNoUnique(row, reps) ==
    /\ row.status \in Statuses
    /\ row.priority \in Priorities

ReportInsertOk(row, reps) ==
    /\ \A r \in reps : r.id # row.id
    /\ \A r \in reps : r.report_id # row.report_id
    /\ row.status \in Statuses
    /\ row.priority \in Priorities

ImageInsertOkNoForeignKey(row, imgs, reps) ==
    \A i \in imgs : i.id # row.id

ImageInsertOk(row, imgs, reps) ==
    /\ \A i \in imgs : i.id # row.id
    /\ \E r \in reps : r.id = row.report_id

ImagesAfterReportDelete(id, imgs) == {i \in imgs : i.report_id # id}

Newer(a, b) ==
    \/ a.created_at > b.created_at
    \/ a.created_at = b.created_at /\ a.rowid > b.rowid

RECURSIVE OrderDesc(_)
OrderDesc(rows) ==
    IF rows = {} THEN <<>>
    ELSE LET top == CHOOSE r \in rows : \A o \in rows \ {r} : Newer(r, o)
         IN  <<top>> \o OrderDesc(rows \ {top})

Older(a, b) ==
    \/ a.created_at < b.created_at
    \/ a.created_at = b.created_at /\ a.rowid < b.rowid

RECURSIVE OrderAsc(_)
OrderAsc(rows) ==
    IF rows = {} THEN <<>>
    ELSE LET first == CHOOSE r \in rows : \A o \in rows \ {r} : Older(r, o)
         IN  <<first>> \o OrderAsc(rows \ {first})

LimitOffset(s, limit, offset) ==
    LET from == IF offset < 0 THEN 1 ELSE offset + 1
        to == IF limit < 0 \/ from - 1 + limit > Len(s)
              THEN Len(s) ELSE from - 1 + limit
    IN  SubSeq(s, from, to)

(***************************************************************************)
(* parseInt(x) || dflt                                                     *)
(***************************************************************************)
Digits == <<"0", "1", "2", "3", "4", "5", "6", "7", "8", "9">>

IsDigit(c) == \E i \in 1..10 : Digits[i] = c

DigitValue(c) == (CHOOSE i \in 1..10 : Digits[i] = c) - 1

RECURSIVE DigitPrefix(_, _)
DigitPrefix(s, acc) ==
    IF s # <<>> /\ IsDigit(Head(s))
    THEN DigitPrefix(Tail(s), acc * 10 + DigitValue(Head(s)))
    ELSE acc

ParseInt(raw) ==
    LET s == TrimLeft(raw)
        neg == s # <<>> /\ Head(s) = "-"
        body == IF s # <<>> /\ Head(s) \in {"-", "+"} THEN Tail(s) ELSE s
    IN  IF body = <<>> \/ ~IsDigit(Head(body))
        THEN [nan |-> TRUE, val |-> 0]
        ELSE [nan |-> FALSE,
              val |-> IF neg THEN 0 - DigitPrefix(body, 0)
                      ELSE DigitPrefix(body, 0)]

ParseIntOr(raw, dflt) ==
    LET n == ParseInt(raw)
    IN  IF n.nan \/ n.val = 0 THEN dflt ELSE n.val

DefaultLimit == 50

SearchLimit == 20

(***************************************************************************)
(* Identifiers in scope of the handlers.  handleCreateReport and           *)
(* handleDeleteReport take (request, db) resp. (id, db) and                *)
(* handleUploadImage takes (request, db, r2Bucket): neither `ctx` nor      *)
(* `env` is bound there, nor at module level, so evaluating them throws a  *)
(* ReferenceError that the handler's catch rethrows.                       *)
(***************************************************************************)
CtxInScope == FALSE

EnvInScopeAsParameter == TRUE

EnvInScope == FALSE

(***************************************************************************)
(* Responses.                                                              *)
(***************************************************************************)
BaseResp ==
    [status |-> 0, success |-> FALSE, error |-> "", kind |-> "json",
     data |-> <<>>, images |-> <<>>, id |-> "", report_id |-> <<>>,
     missing |-> <<>>, total |-> 0, limit |-> 0, offset |-> 0,
     has_more |-> FALSE, deleted |-> 0, count |-> 0,
     bytes |-> <<>>, content_type |-> "", location |-> <<>>,
     overview |-> <<>>, activity |-> <<>>, platforms |-> <<>>,
     timeline |-> <<>>, response_times |-> <<>>, priority_trends |-> <<>>,
     top_servers |-> <<>>, hourly_distribution |-> <<>>, period_days |-> 0]

jsonResponse(fields, status) ==
    fields @@ [BaseResp EXCEPT !.status = status]

ErrorResponse(error, status) ==
    jsonResponse([success |-> FALSE, error |-> error], status)

InternalServerError == ErrorResponse("Internal Server Error", 500)

BaseReq ==
    [op |-> "none", id |-> "", json |-> TRUE,
     server_name |-> <<>>, status |-> "", priority |-> "",
     limit |-> <<>>, offset |-> <<>>, fstatus |-> "", fpriority |-> "",
     search |-> <<>>, q |-> <<>>,
     ctype |-> "", image_data |-> <<>>, filename |-> "", mime_type |-> "",
     bytes |-> <<>>, method |-> "", path |-> <<>>, key_ok |-> TRUE,
     days |-> <<>>, before |-> <<>>]

BaseLoc ==
    [id |-> "", report_id |-> <<>>, timestamp |-> 0, rows |-> <<>>,
     report |-> <<>>, limit |-> 0, offset |-> 0, matching |-> {},
     failed |-> {}, changes |-> 0, stats |-> <<>>,
     handler |-> "", arg |-> <<>>]

(***************************************************************************)
(* Inputs.                                                                 *)
(***************************************************************************)
NewIds == {"rep_n1", "rep_n2"}

NewReportIds == {<<"R", "E", "P", "-", "2", "0", "2", "6", "-", "0", "0", "0", "7">>,
                 <<"R", "E", "P", "-", "2", "0", "2", "6", "-", "0", "0", "4", "2">>}

NewImageIds == {"img_n1", "img_n2"}

TargetIds == {"rep_1", "rep_n1", "rep_x"}

ImageIds == {"img_1", "img_n1", "img_x"}

InServerName == <<"D", "B", " ", "1">>

CreateBodies ==
    {[json |-> TRUE, server_name |-> InServerName, status |-> "pending",
      priority |-> "high"],
     [json |-> TRUE, server_name |-> InServerName, status |-> "completed",
      priority |-> "critical"],
     [json |-> TRUE, server_name |-> <<>>, status |-> "pending",
      priority |-> "high"],
     [json |-> TRUE, server_name |-> InServerName, status |-> "",
      priority |-> ""],
     [json |-> TRUE, server_name |-> InServerName, status |-> "archived",
      priority |-> "high"],
     [json |-> TRUE, server_name |-> InServerName, status |-> "pending",
      priority |-> "urgent"],
     [json |-> FALSE, server_name |-> <<>>, status |-> "", priority |-> ""]}


(***************************************************************************)
(* Evidence payloads a client may send.  `bytes` is what the client        *)
(* encoded; it is carried in the request only.                             *)
(***************************************************************************)
InlineCeiling == 128

DataUrlPrefix ==
    <<"d", "a", "t", "a", ":", "i", "m", "a", "g", "e", "/", "p", "n", "g", ";", "b", "a", "s", "e", "6", "4", ",">>

OversizedPayload == [i \in 1..(InlineCeiling + 4) |-> "A"]

InlinePayloads ==
    {[image_data |-> Btoa(<<1, 2, 3>>), bytes |-> <<1, 2, 3>>,
      mime_type |-> "image/jpeg"],
     [image_data |-> DataUrlPrefix \o Btoa(<<1, 2, 3>>), bytes |-> <<1, 2, 3>>,
      mime_type |-> ""],
     [image_data |-> Btoa(<<134, 219, 105>>), bytes |-> <<134, 219, 105>>,
      mime_type |-> "image/jpeg"],
     [image_data |-> <<"h", "t", "t", "p", ":", "/", "/", "x", "/", "y">>, bytes |-> <<>>,
      mime_type |-> "image/jpeg"],
     [image_data |-> <<"A", "!">>, bytes |-> <<>>, mime_type |-> "image/jpeg"],
     [image_data |-> OversizedPayload, bytes |-> Atob(OversizedPayload),
      mime_type |-> "image/jpeg"]}

PlainPayload == Btoa(<<1, 2, 3>>)

UploadBody(json, reportId, filename, imageData, mimeType, bytes) ==
    [json |-> json, id |-> reportId, filename |-> filename,
     image_data |-> imageData, mime_type |-> mimeType, bytes |-> bytes]

UploadBodies ==
    {UploadBody(TRUE, "rep_1", "a.png", d.image_data, d.mime_type, d.bytes) :
        d \in InlinePayloads}
    \cup {UploadBody(TRUE, id, "a.png", PlainPayload, "", <<1, 2, 3>>) :
            id \in {"rep_n1", "rep_x", ""}}
    \cup {UploadBody(TRUE, "rep_1", "a.png", <<>>, "", <<>>),
          UploadBody(TRUE, "rep_1", "", PlainPayload, "", <<1, 2, 3>>),
          UploadBody(FALSE, "", "", <<>>, "", <<>>)}

FormBodies ==
    {[id |-> "rep_1", name |-> "shot.png"],
     [id |-> "rep_x", name |-> "shot.png"],
     [id |-> "", name |-> "shot.png"],
     [id |-> "rep_1", name |-> ""]}

ListQuery(limit, offset, status, priority, search) ==
    [limit |-> limit, offset |-> offset, status |-> status,
     priority |-> priority, search |-> search]

ListParams ==
    {ListQuery(<<>>, <<>>, "", "", <<>>),
     ListQuery(<<"2">>, <<"0">>, "", "", <<>>),
     ListQuery(<<"2">>, <<"4">>, "", "", <<>>),
     ListQuery(<<"2">>, <<"6">>, "", "", <<>>),
     ListQuery(<<"1">>, <<"1">>, "pending", "", <<>>),
     ListQuery(<<"3">>, <<>>, "", "high", <<"S", "V", "R">>),
     ListQuery(<<"-", "1">>, <<"-", "2">>, "", "", <<>>),
     ListQuery(<<"a">>, <<"2", "x">>, "", "", <<"D", "B">>)}

Queries ==
    {<<>>, <<"D">>, <<"D", "B">>, <<"B", " ">>, <<"B", " ", "1">>,
     <<"S", "V", "R">>, <<"_", "%">>, <<"1", "9", "2">>}

(***************************************************************************)
(* new URL(s) as Response.redirect runs it: an absolute URL needs a        *)
(* scheme, and a special scheme needs a host.                              *)
(***************************************************************************)
Letters == DOMAIN Lowercase \cup {Lowercase[c] : c \in DOMAIN Lowercase}

SchemeChars == Letters \cup {Digits[i] : i \in 1..10} \cup {"+", "-", "."}

RECURSIVE SkipSlashes(_)
SkipSlashes(s) ==
    IF s # <<>> /\ Head(s) \in {"/", "\\"} THEN SkipSlashes(Tail(s)) ELSE s

SpecialSchemes ==
    {<<"h", "t", "t", "p">>, <<"h", "t", "t", "p", "s">>}

UrlParses(s) ==
    LET colons == Positions(s, ":")
    IN  /\ colons # {}
        /\ LET c == Min(colons)
               scheme == [i \in 1..(c - 1) |-> Fold(s[i])]
               rest == SubSeq(s, c + 1, Len(s))
           IN  /\ c > 1
               /\ s[1] \in Letters
               /\ \A i \in 1..(c - 1) : s[i] \in SchemeChars
               /\ scheme \in SpecialSchemes => SkipSlashes(rest) # <<>>

(***************************************************************************)
(* Query helpers of the handlers.                                          *)
(***************************************************************************)
Visible(r) == [f \in DOMAIN r \ {"rowid"} |-> r[f]]

ReportsWithId(id) == {r \in reports : r.id = id}

ImagesOfAnyReport(id) == images

ImagesOf(id) == {i \in images : i.report_id = id}

ListMatches(r, status, priority, search) ==
    /\ status = "" \/ r.status = status
    /\ priority = "" \/ r.priority = priority
    /\ \/ search = <<>>
       \/ Like(r.server_name, SearchTerm(search))
       \/ Like(r.description, SearchTerm(search))
       \/ Like(r.report_id, SearchTerm(search))

SearchMatches(r, q) ==
    \/ Like(r.server_name, SearchTerm(q))
    \/ Like(r.ip_address, SearchTerm(q))
    \/ Like(r.description, SearchTerm(q))
    \/ Like(r.report_id, SearchTerm(q))

ListRow(r) ==
    [image_count |-> Cardinality(ImagesOf(r.id)),
     preview_image |-> IF ImagesOf(r.id) = {} THEN ""
                       ELSE OrderAsc(ImagesOf(r.id))[1].filename]
    @@ Visible(r)

SearchRow(r) ==
    [f \in {"id", "report_id", "server_name", "ip_address", "description",
            "status", "priority", "created_at"} |-> r[f]]

ImageRow(i) ==
    [f \in {"id", "filename", "file_size", "mime_type", "image_data",
            "created_at"} |-> i[f]]

ListRows(s) == [k \in 1..Len(s) |-> ListRow(s[k])]

SearchRows(s) == [k \in 1..Len(s) |-> SearchRow(s[k])]

ImageRows(s) == [k \in 1..Len(s) |-> ImageRow(s[k])]

(***************************************************************************)
(* Initial state: the database right after schema.sql ran.                 *)
(***************************************************************************)
IdleAll ==
    /\ pc = [p \in Procs |-> "idle"]
    /\ req = [p \in Procs |-> BaseReq]
    /\ loc = [p \in Procs |-> BaseLoc]
    /\ resp = [p \in Procs |-> BaseResp]

Deployed ==
    /\ reports = SeedReports
    /\ images = SeedImages
    /\ system_stats = SeedStats
    /\ r2Objects = {}
    /\ r2Bucket \in BOOLEAN
    /\ now = 1
    /\ assigned = {r.report_id : r \in SeedReports}
    /\ IdleAll

Init == Deployed /\ faults = FALSE /\ nreq = MaxRequests

InitFaults == Deployed /\ faults = TRUE /\ nreq = MaxRequests

FaultChoices == IF faults THEN BOOLEAN ELSE {FALSE}

Accept(p) == pc[p] = "idle" /\ nreq > 0

Goto(p, label) == pc' = [pc EXCEPT ![p] = label]

Respond(p, r) ==
    /\ pc' = [pc EXCEPT ![p] = "done"]
    /\ resp' = [resp EXCEPT ![p] = r]

(* A request carries, as history, the stores as it found them.             *)
Request(p, r) ==
    /\ req' = [req EXCEPT ![p] =
                  r @@ [before |-> <<reports, images, r2Objects>>]
                    @@ BaseReq]
    /\ nreq' = nreq - 1

Locals(p, l) == loc' = [loc EXCEPT ![p] = l @@ loc[p]]

Failing(p, call, fault) ==
    IF fault THEN loc[p].failed \cup {call} ELSE loc[p].failed

Caught(p, call, fault) == Locals(p, [failed |-> Failing(p, call, fault)])


(***************************************************************************)
(* POST /api/reports                                                       *)
(***************************************************************************)
RequiredFields == <<"server_name", "status", "priority">>

IsMissing(data, field) ==
    IF field = "server_name" THEN data.server_name = <<>>
    ELSE data[field] = ""

MissingFieldsAllNamed(data) ==
    IF \E i \in DOMAIN RequiredFields : IsMissing(data, RequiredFields[i])
    THEN RequiredFields ELSE <<>>

MissingFields(data) ==
    SelectSeq(RequiredFields, LAMBDA f : IsMissing(data, f))

NewReport(data, id, reportId, timestamp) ==
    [rowid |-> NextRowid(reports), id |-> id, report_id |-> reportId,
     server_name |-> data.server_name, ip_address |-> <<>>,
     description |-> <<>>, status |-> data.status,
     priority |-> data.priority, platform |-> "", created_by |-> "System",
     created_at |-> timestamp]

CreatedResponse(createdReport, id, reportId) ==
    IF CtxInScope
    THEN jsonResponse([success |-> TRUE, data |-> createdReport,
                       report_id |-> reportId, id |-> id], 201)
    ELSE InternalServerError

CreateInsert(p) ==
    /\ Accept(p)
    /\ \E data \in CreateBodies, id \in NewIds, reportId \in NewReportIds,
          fault \in FaultChoices :
        LET row == NewReport(data, id, reportId, now)
        IN  /\ Request(p, [op |-> "create"] @@ data)
            /\ IF ~data.json
               THEN /\ Respond(p, ErrorResponse("Invalid JSON", 400))
                    /\ UNCHANGED <<reports, loc, assigned>>
               ELSE IF MissingFields(data) # <<>>
               THEN /\ Respond(p, jsonResponse(
                           [success |-> FALSE,
                            error |-> "Missing required fields",
                            missing |-> MissingFields(data)], 400))
                    /\ UNCHANGED <<reports, loc, assigned>>
               ELSE IF fault \/ ~ReportInsertOk(row, reports)
               THEN /\ Respond(p, InternalServerError)
                    /\ Locals(p, [id |-> id, report_id |-> reportId,
                                  timestamp |-> now,
                                  failed |-> {"insert"}])
                    /\ UNCHANGED <<reports, assigned>>
               ELSE /\ reports' = reports \cup {row}
                    /\ assigned' = assigned \cup {reportId}
                    /\ Locals(p, [id |-> id, report_id |-> reportId,
                                  timestamp |-> now])
                    /\ Goto(p, "create_select")
                    /\ UNCHANGED resp
    /\ UNCHANGED <<images, system_stats, r2Objects, r2Bucket, faults, now>>

CreateSelect(p) ==
    /\ pc[p] = "create_select"
    /\ \E fault \in FaultChoices :
        LET found == ReportsWithId(loc[p].id)
            createdReport ==
                IF fault
                THEN <<[id |-> loc[p].id, report_id |-> loc[p].report_id]>>
                ELSE IF found = {} THEN <<>>
                ELSE <<Visible(CHOOSE r \in found : TRUE)>>
        IN  /\ Respond(p, CreatedResponse(createdReport, loc[p].id,
                                           loc[p].report_id))
            /\ Caught(p, "select", fault)
    /\ UNCHANGED <<assigned,
                   reports, images, system_stats, r2Objects, r2Bucket,
                   faults, now, req, nreq>>

(***************************************************************************)
(* GET /api/reports/{id}                                                   *)
(***************************************************************************)
GetReport(p) ==
    /\ Accept(p)
    /\ \E id \in TargetIds, fault \in FaultChoices :
        LET found == IF fault THEN {} ELSE ReportsWithId(id)
        IN  /\ Request(p, [op |-> "get", id |-> id])
            /\ IF found = {}
               THEN /\ Respond(p, ErrorResponse("Report not found", 404))
                    /\ Caught(p, "select", fault)
               ELSE /\ Locals(p, [report |->
                                  <<Visible(CHOOSE r \in found : TRUE)>>])
                    /\ Goto(p, "get_images")
                    /\ UNCHANGED resp
    /\ UNCHANGED <<assigned,
                   reports, images, system_stats, r2Objects, r2Bucket,
                   faults, now>>

GetReportImages(p) ==
    /\ pc[p] = "get_images"
    /\ \E fault \in FaultChoices :
        LET rows == IF fault THEN <<>>
                    ELSE ImageRows(OrderAsc(ImagesOf(req[p].id)))
        IN  /\ Respond(p, jsonResponse([success |-> TRUE,
                                         data |-> loc[p].report,
                                         images |-> rows], 200))
            /\ Caught(p, "images", fault)
    /\ UNCHANGED <<assigned,
                   reports, images, system_stats, r2Objects, r2Bucket,
                   faults, now, req, nreq>>

(***************************************************************************)
(* DELETE /api/reports/{id}                                                *)
(***************************************************************************)
DeletedResponse(changes) ==
    IF CtxInScope
    THEN jsonResponse([success |-> TRUE, deleted |-> changes], 200)
    ELSE InternalServerError

DeleteResponseUnchecked(changes) == DeletedResponse(changes)

DeleteResponse(changes) ==
    IF changes = 0 THEN ErrorResponse("Report not found", 404)
    ELSE DeletedResponse(changes)

DeleteImages(p) ==
    /\ Accept(p)
    /\ \E id \in TargetIds, fault \in FaultChoices :
        /\ Request(p, [op |-> "delete", id |-> id])
        /\ images' = IF fault THEN images ELSE images \ ImagesOf(id)
        /\ Caught(p, "delete_images", fault)
    /\ Goto(p, "delete_report")
    /\ UNCHANGED <<assigned,
                   reports, system_stats, r2Objects, r2Bucket, faults, now,
                   resp>>

DeleteReport(p) ==
    /\ pc[p] = "delete_report"
    /\ \E fault \in FaultChoices :
        LET changes == Cardinality(ReportsWithId(req[p].id))
        IN  IF fault
            THEN /\ Respond(p, InternalServerError)
                 /\ Caught(p, "delete_report", TRUE)
                 /\ UNCHANGED <<reports, images>>
            ELSE /\ reports' = reports \ ReportsWithId(req[p].id)
                 /\ images' = IF changes = 0 THEN images
                              ELSE ImagesAfterReportDelete(req[p].id, images)
                 /\ Respond(p, DeleteResponse(changes))
                 /\ Locals(p, [changes |-> changes])
    /\ UNCHANGED <<assigned,
                   system_stats, r2Objects, r2Bucket, faults, now, req,
                   nreq>>

(***************************************************************************)
(* DELETE /api/reports/{id} as the second worker file has it: no store     *)
(* call is guarded, and the summary refresh is awaited.                    *)
(***************************************************************************)
StatsCountsOnProgressOnly(reps) ==
    [total_reports |-> Cardinality(reps),
     active_issues |->
        Cardinality({r \in reps : r.status = "on-progress"}),
     completed_reports |->
        Cardinality({r \in reps : r.status = "completed"}),
     critical_issues |->
        Cardinality({r \in reps : r.priority = "critical"})]

StatsCounts(reps) ==
    [total_reports |-> Cardinality(reps),
     active_issues |->
        Cardinality({r \in reps : r.status \in {"on-progress", "pending"}}),
     completed_reports |->
        Cardinality({r \in reps : r.status = "completed"}),
     critical_issues |->
        Cardinality({r \in reps : r.priority = "critical"})]

AltDeleteImages(p) ==
    /\ Accept(p)
    /\ \E id \in TargetIds \cup {"rep_2"}, fault \in FaultChoices :
        /\ Request(p, [op |-> "delete", id |-> id])
        /\ Caught(p, "delete_images", fault)
        /\ IF fault
           THEN /\ Respond(p, InternalServerError)
                /\ UNCHANGED images
           ELSE /\ images' = images \ ImagesOf(id)
                /\ Goto(p, "alt_delete_report")
                /\ UNCHANGED resp
    /\ UNCHANGED <<assigned,
                   reports, system_stats, r2Objects, r2Bucket, faults, now>>

AltDeleteReport(p) ==
    /\ pc[p] = "alt_delete_report"
    /\ \E fault \in FaultChoices :
        LET changes == Cardinality(ReportsWithId(req[p].id))
        IN  IF fault
            THEN /\ Respond(p, InternalServerError)
                 /\ Caught(p, "delete_report", TRUE)
                 /\ UNCHANGED <<reports, images>>
            ELSE /\ reports' = reports \ ReportsWithId(req[p].id)
                 /\ images' = IF changes = 0 THEN images
                              ELSE ImagesAfterReportDelete(req[p].id, images)
                 /\ Locals(p, [changes |-> changes])
                 /\ IF changes = 0
                    THEN Respond(p, ErrorResponse("Report not found", 404))
                    ELSE Goto(p, "alt_stats_select") /\ UNCHANGED resp
    /\ UNCHANGED <<assigned,
                   system_stats, r2Objects, r2Bucket, faults, now, req,
                   nreq>>

AltDeleted(p) ==
    Respond(p, jsonResponse([success |-> TRUE,
                             deleted |-> loc[p].changes], 200))

AltStatsSelect(p) ==
    /\ pc[p] = "alt_stats_select"
    /\ \E fault \in FaultChoices :
        /\ Locals(p, [stats |-> IF fault THEN <<>>
                                ELSE <<StatsCounts(reports)>>,
                      failed |-> Failing(p, "stats_select", fault)])
        /\ IF fault THEN AltDeleted(p)
                    ELSE Goto(p, "alt_stats_write") /\ UNCHANGED resp
    /\ UNCHANGED <<assigned,
                   reports, images, system_stats, r2Objects, r2Bucket,
                   faults, now, req, nreq>>

AltStatsWrite(p) ==
    /\ pc[p] = "alt_stats_write"
    /\ \E fault \in FaultChoices :
        /\ system_stats' =
              IF fault THEN system_stats
              ELSE {row \in system_stats : row.id # 1}
                       \cup {[id |-> 1] @@ loc[p].stats[1]}
        /\ Caught(p, "stats_write", fault)
    /\ AltDeleted(p)
    /\ UNCHANGED <<assigned,
                   reports, images, r2Objects, r2Bucket, faults, now, req,
                   nreq>>

(***************************************************************************)
(* GET /api/reports                                                        *)
(***************************************************************************)
ListMatching(params) ==
    {r \in reports :
        ListMatches(r, params.status, params.priority, params.search)}

HasMoreInclusive(offset, limit, total) == (offset + limit) <= total

HasMore(offset, limit, total) == (offset + limit) < total

ListPage(p) ==
    /\ Accept(p)
    /\ \E params \in ListParams, fault \in FaultChoices :
        LET limit == ParseIntOr(params.limit, DefaultLimit)
            offset == ParseIntOr(params.offset, 0)
            matching == ListMatching(params)
            page == LimitOffset(OrderDesc(matching), limit, offset)
        IN  /\ Request(p, [op |-> "list", limit |-> params.limit,
                           offset |-> params.offset,
                           fstatus |-> params.status,
                           fpriority |-> params.priority,
                           search |-> params.search])
            /\ Locals(p, [limit |-> limit, offset |-> offset,
                          matching |-> matching,
                          rows |-> IF fault THEN <<>>
                                   ELSE ListRows(page),
                          failed |-> Failing(p, "page", fault)])
    /\ Goto(p, "list_count")
    /\ UNCHANGED <<assigned,
                   reports, images, system_stats, r2Objects, r2Bucket,
                   faults, now, resp>>

ListCount(p) ==
    /\ pc[p] = "list_count"
    /\ \E fault \in FaultChoices :
        LET params == [status |-> req[p].fstatus,
                       priority |-> req[p].fpriority,
                       search |-> req[p].search]
            total == IF fault THEN 0 ELSE Cardinality(ListMatching(params))
        IN  /\ Respond(p, jsonResponse(
                  [success |-> TRUE, data |-> loc[p].rows, total |-> total,
                   limit |-> loc[p].limit, offset |-> loc[p].offset,
                   has_more |-> HasMore(loc[p].offset, loc[p].limit, total)],
                  200))
            /\ Caught(p, "count", fault)
    /\ UNCHANGED <<assigned,
                   reports, images, system_stats, r2Objects, r2Bucket,
                   faults, now, req, nreq>>

(***************************************************************************)
(* handleSearchReports                                                     *)
(***************************************************************************)
QueryTooShortInclusive(query) == query = <<>> \/ Len(Trim(query)) <= 2

QueryTooShort(query) == query = <<>> \/ Len(Trim(query)) < 2

SearchReports(p) ==
    /\ Accept(p)
    /\ \E q \in Queries, fault \in FaultChoices :
        LET matching == {r \in reports : SearchMatches(r, q)}
            rows == IF fault THEN <<>>
                    ELSE SearchRows(LimitOffset(OrderDesc(matching),
                                                SearchLimit, 0))
        IN  /\ Request(p, [op |-> "search", q |-> q])
            /\ Respond(p,
                 IF QueryTooShort(q)
                 THEN ErrorResponse(
                        "Search query must be at least 2 characters", 400)
                 ELSE jsonResponse([success |-> TRUE, data |-> rows,
                                    count |-> Len(rows)], 200))
            /\ Caught(p, "search", fault /\ ~QueryTooShort(q))
    /\ UNCHANGED <<assigned,
                   reports, images, system_stats, r2Objects, r2Bucket,
                   faults, now>>

(***************************************************************************)
(* POST /api/upload                                                        *)
(***************************************************************************)
UploadJson(p) ==
    /\ Accept(p)
    /\ \E data \in UploadBodies, fault \in FaultChoices :
        LET found == IF fault THEN {} ELSE ReportsWithId(data.id)
        IN  /\ Request(p, [op |-> "upload", ctype |-> "application/json"]
                          @@ data)
            /\ IF ~data.json
               THEN /\ Respond(p, ErrorResponse("Invalid JSON", 400))
                    /\ UNCHANGED loc
               ELSE IF data.id = "" \/ data.image_data = <<>>
                       \/ data.filename = ""
               THEN /\ Respond(p, ErrorResponse("Missing required fields", 400))
                    /\ UNCHANGED loc
               ELSE IF found = {}
               THEN /\ Respond(p, ErrorResponse("Report not found", 404))
                    /\ Caught(p, "select", fault)
               ELSE /\ Goto(p, "upload_insert")
                    /\ UNCHANGED <<resp, loc>>
    /\ UNCHANGED <<assigned,
                   reports, images, system_stats, r2Objects, r2Bucket,
                   faults, now>>

NewImage(id, r) ==
    [rowid |-> NextRowid(images), id |-> id, report_id |-> r.id,
     filename |-> r.filename, file_size |-> 0,
     mime_type |-> IF r.mime_type = "" THEN "image/png" ELSE r.mime_type,
     image_data |-> r.image_data, created_at |-> now]

UploadInsert(p) ==
    /\ pc[p] = "upload_insert"
    /\ \E imageId \in NewImageIds, fault \in FaultChoices :
        LET row == NewImage(imageId, req[p])
        IN  IF fault \/ ~ImageInsertOk(row, images, reports)
            THEN /\ Respond(p, InternalServerError)
                 /\ Caught(p, "insert", TRUE)
                 /\ UNCHANGED images
            ELSE /\ images' = images \cup {row}
                 /\ Respond(p, jsonResponse([success |-> TRUE,
                                             id |-> imageId], 200))
                 /\ UNCHANGED loc
    /\ UNCHANGED <<assigned,
                   reports, system_stats, r2Objects, r2Bucket, faults, now,
                   req, nreq>>

HttpPrefix == <<"h", "t", "t", "p">>

R2Key(reportId, timestamp, name) == <<reportId, timestamp, name>>

UploadedToR2Response(imageId, url) ==
    IF EnvInScope
    THEN jsonResponse([success |-> TRUE, id |-> imageId, location |-> url],
                      200)
    ELSE InternalServerError

UploadMultipart(p) ==
    /\ Accept(p)
    /\ \E form \in FormBodies, fault \in FaultChoices,
          imageId \in NewImageIds, metaFault \in FaultChoices :
        LET r2Url == HttpPrefix \o <<"s", ":", "/", "/", "p", "u", "b", "-">>
            row == NewImage(imageId, [id |-> form.id, filename |-> form.name,
                                      mime_type |-> "image/png",
                                      image_data |-> r2Url])
            saved == /\ EnvInScope
                     /\ ~metaFault
                     /\ ImageInsertOk(row, images, reports)
        IN  /\ Request(p, [op |-> "upload", ctype |-> "multipart/form-data",
                           id |-> form.id, filename |-> form.name])
            /\ IF ~r2Bucket
               THEN /\ Respond(p, ErrorResponse("R2 bucket not configured",
                                                501))
                    /\ UNCHANGED <<r2Objects, images, loc>>
               ELSE IF form.id = "" \/ form.name = ""
               THEN /\ Respond(p, ErrorResponse("Missing required fields",
                                                400))
                    /\ UNCHANGED <<r2Objects, images, loc>>
               ELSE IF fault
               THEN /\ Respond(p, InternalServerError)
                    /\ Caught(p, "r2_put", TRUE)
                    /\ UNCHANGED <<r2Objects, images>>
               ELSE /\ r2Objects' = r2Objects
                                    \cup {R2Key(form.id, now, form.name)}
                    /\ images' = IF saved THEN images \cup {row} ELSE images
                    /\ Respond(p, UploadedToR2Response(imageId, r2Url))
                    /\ UNCHANGED loc
    /\ UNCHANGED <<assigned,
                   reports, system_stats, r2Bucket, faults, now>>

UploadUnsupported(p) ==
    /\ Accept(p)
    /\ Request(p, [op |-> "upload", ctype |-> "text/plain"])
    /\ Respond(p, ErrorResponse("Unsupported content type", 415))
    /\ UNCHANGED <<assigned,
                   reports, images, system_stats, r2Objects, r2Bucket,
                   faults, now, loc>>

(***************************************************************************)
(* GET /api/images/{id}                                                    *)
(***************************************************************************)
Base64Part(image_data) ==
    LET parts == SplitComma(image_data)
    IN  IF Len(parts) > 1 /\ parts[2] # <<>> THEN parts[2] ELSE image_data

ImageResponse(image) ==
    IF image.image_data # <<>> /\ StartsWith(image.image_data, HttpPrefix)
    THEN IF UrlParses(image.image_data)
         THEN [BaseResp EXCEPT !.status = 302, !.kind = "redirect",
                               !.location = image.image_data]
         ELSE InternalServerError
    ELSE IF image.image_data # <<>>
    THEN IF AtobOk(Base64Part(image.image_data))
         THEN [BaseResp EXCEPT
                 !.status = 200, !.kind = "binary",
                 !.bytes = Atob(Base64Part(image.image_data)),
                 !.content_type = IF image.mime_type = "" THEN "image/png"
                                  ELSE image.mime_type]
         ELSE ErrorResponse("Invalid image data", 400)
    ELSE ErrorResponse("No image data available", 404)

GetImage(p) ==
    /\ Accept(p)
    /\ \E id \in ImageIds, fault \in FaultChoices :
        LET found == IF fault THEN {} ELSE {i \in images : i.id = id}
        IN  /\ Request(p, [op |-> "image", id |-> id])
            /\ Respond(p, IF found = {}
                          THEN ErrorResponse("Image not found", 404)
                          ELSE ImageResponse(CHOOSE i \in found : TRUE))
            /\ Caught(p, "select", fault)
    /\ UNCHANGED <<assigned,
                   reports, images, system_stats, r2Objects, r2Bucket,
                   faults, now>>

(***************************************************************************)
(* Dates.  The clock counts ticks; a day is TicksPerDay ticks, so that     *)
(* DATE(created_at), strftime('%H', created_at) and DATE('now', '-N days') *)
(* are computed from the tick.                                             *)
(***************************************************************************)
TicksPerDay == 2

DateOf(t) == t \div TicksPerDay

HourOf(t) == (t % TicksPerDay) * (24 \div TicksPerDay)

SinceDays(reps, t, days) ==
    {r \in reps : DateOf(r.created_at) >= DateOf(t) - days}

RECURSIVE SeqAsc(_)
SeqAsc(S) ==
    IF S = {} THEN <<>>
    ELSE LET m == Min(S) IN <<m>> \o SeqAsc(S \ {m})

RECURSIVE CountDesc(_)
CountDesc(groups) ==
    IF groups = {} THEN <<>>
    ELSE LET g == CHOOSE x \in groups :
                    \A y \in groups :
                        \/ y.count < x.count
                        \/ y.count = x.count /\ y.first >= x.first
         IN  <<g>> \o CountDesc(groups \ {g})

FirstRowid(rows) == Min({r.rowid : r \in rows})

(***************************************************************************)
(* GET /api/stats                                                          *)
(***************************************************************************)
TimelineDays == 7

ZeroOverview ==
    [total_reports |-> 0, on_progress |-> 0, completed |-> 0, pending |-> 0,
     cancelled |-> 0, critical |-> 0, high |-> 0, medium |-> 0, low |-> 0,
     total_images |-> 0, active_days |-> 0]

WithStatus(reps, status) == Cardinality({r \in reps : r.status = status})

WithPriority(reps, priority) ==
    Cardinality({r \in reps : r.priority = priority})

Overview(reps, imgs) ==
    [total_reports |-> Cardinality(reps),
     on_progress |-> WithStatus(reps, "on-progress"),
     completed |-> WithStatus(reps, "completed"),
     pending |-> WithStatus(reps, "pending"),
     cancelled |-> WithStatus(reps, "cancelled"),
     critical |-> WithPriority(reps, "critical"),
     high |-> WithPriority(reps, "high"),
     medium |-> WithPriority(reps, "medium"),
     low |-> WithPriority(reps, "low"),
     total_images |-> Cardinality(imgs),
     active_days |-> Cardinality({DateOf(r.created_at) : r \in reps})]

ZeroActivity == [reports_today |-> 0, unique_servers_today |-> 0]

Activity(reps, t) ==
    LET today == {r \in reps : DateOf(r.created_at) = DateOf(t)}
    IN  [reports_today |-> Cardinality(today),
         unique_servers_today |->
            Cardinality({r.server_name : r \in today})]

PlatformDistribution(reps) ==
    LET named == {r \in reps : r.platform # ""}
        group(pl) == {r \in named : r.platform = pl}
        ranked == CountDesc({[platform |-> pl,
                              count |-> Cardinality(group(pl)),
                              first |-> FirstRowid(group(pl))] :
                             pl \in {r.platform : r \in named}})
    IN  [i \in 1..Len(ranked) |->
            [platform |-> ranked[i].platform, count |-> ranked[i].count]]

TimelineZeroFilled(reps, t) ==
    LET recent == SinceDays(reps, t, TimelineDays)
        first == IF DateOf(t) > TimelineDays
                 THEN DateOf(t) - TimelineDays ELSE 0
        dates == SeqAsc(first..DateOf(t))
        on(d) == {r \in recent : DateOf(r.created_at) = d}
    IN  [i \in 1..Len(dates) |->
            [date |-> dates[i],
             total |-> Cardinality(on(dates[i])),
             completed |-> WithStatus(on(dates[i]), "completed")]]

Timeline(reps, t) ==
    LET recent == SinceDays(reps, t, TimelineDays)
        dates == SeqAsc({DateOf(r.created_at) : r \in recent})
        on(d) == {r \in recent : DateOf(r.created_at) = d}
    IN  [i \in 1..Len(dates) |->
            [date |-> dates[i],
             total |-> Cardinality(on(dates[i])),
             completed |-> WithStatus(on(dates[i]), "completed")]]

FailedOf(f1, f2, f3, f4, names) ==
    (IF f1 THEN {names[1]} ELSE {}) \cup (IF f2 THEN {names[2]} ELSE {})
        \cup (IF f3 THEN {names[3]} ELSE {})
        \cup (IF f4 THEN {names[4]} ELSE {})

StatsAnswer(p) ==
    \E f1 \in FaultChoices, f2 \in FaultChoices, f3 \in FaultChoices,
       f4 \in FaultChoices :
        /\ Request(p, [op |-> "stats"])
        /\ Locals(p, [failed |->
                FailedOf(f1, f2, f3, f4,
                         <<"stats", "recent", "platforms", "timeline">>)])
        /\ Respond(p, jsonResponse(
              [success |-> TRUE,
               overview |-> IF f1 THEN ZeroOverview
                            ELSE Overview(reports, images),
               activity |-> IF f2 THEN ZeroActivity
                            ELSE Activity(reports, now),
               platforms |-> IF f3 THEN <<>>
                             ELSE PlatformDistribution(reports),
               timeline |-> IF f4 THEN <<>> ELSE Timeline(reports, now)],
              200))

GetStatsRefreshing(p) ==
    /\ Accept(p)
    /\ StatsAnswer(p)
    /\ system_stats' = {[id |-> 1] @@ StatsCounts(reports)}
    /\ UNCHANGED <<assigned,
                   reports, images, r2Objects, r2Bucket, faults, now>>

GetStats(p) ==
    /\ Accept(p)
    /\ StatsAnswer(p)
    /\ UNCHANGED <<assigned,
                   reports, images, system_stats, r2Objects, r2Bucket,
                   faults, now>>

(***************************************************************************)
(* GET /api/analytics                                                      *)
(***************************************************************************)
DefaultDays == 30

TopServersLimit == 10

AnalyticsDays == {<<>>, <<"1">>, <<"2">>}

ResponseTimes(reps, t, days) ==
    LET recent == SinceDays(reps, t, days)
        dates == SeqAsc({DateOf(r.created_at) : r \in recent})
        on(d) == {r \in recent : DateOf(r.created_at) = d}
    IN  [i \in 1..Len(dates) |->
            [date |-> dates[i],
             avg_response_minutes |->
                IF WithStatus(on(dates[i]), "completed") = 0
                THEN "null" ELSE "number"]]

PriorityTrends(reps, t, days) ==
    LET recent == SinceDays(reps, t, days)
        dates == SeqAsc({DateOf(r.created_at) : r \in recent})
        on(d) == {r \in recent : DateOf(r.created_at) = d}
    IN  [i \in 1..Len(dates) |->
            [date |-> dates[i],
             critical |-> WithPriority(on(dates[i]), "critical"),
             high |-> WithPriority(on(dates[i]), "high"),
             medium |-> WithPriority(on(dates[i]), "medium"),
             low |-> WithPriority(on(dates[i]), "low")]]

TopServers(reps) ==
    LET group(name) == {r \in reps : r.server_name = name}
        ranked == CountDesc({[server_name |-> name,
                              count |-> Cardinality(group(name)),
                              first |-> FirstRowid(group(name))] :
                             name \in {r.server_name : r \in reps}})
        rows == [i \in 1..Len(ranked) |->
                    [server_name |-> ranked[i].server_name,
                     incident_count |-> ranked[i].count,
                     critical_count |->
                        WithPriority(group(ranked[i].server_name),
                                     "critical")]]
    IN  LimitOffset(rows, TopServersLimit, 0)

HourlyDistribution(reps, t, days) ==
    LET recent == SinceDays(reps, t, days)
        hours == SeqAsc({HourOf(r.created_at) : r \in recent})
    IN  [i \in 1..Len(hours) |->
            [hour |-> hours[i],
             count |-> Cardinality({r \in recent :
                                     HourOf(r.created_at) = hours[i]})]]

GetAnalytics(p) ==
    /\ Accept(p)
    /\ \E raw \in AnalyticsDays,
          f1 \in FaultChoices, f2 \in FaultChoices, f3 \in FaultChoices,
          f4 \in FaultChoices :
        LET days == ParseIntOr(raw, DefaultDays)
        IN  /\ Request(p, [op |-> "analytics", days |-> raw])
            /\ Locals(p, [failed |->
                    FailedOf(f1, f2, f3, f4,
                             <<"response_times", "priority_trends",
                               "top_servers", "hourly_distribution">>)])
            /\ Respond(p, jsonResponse(
                  [success |-> TRUE,
                   response_times |->
                      IF f1 THEN <<>> ELSE ResponseTimes(reports, now, days),
                   priority_trends |->
                      IF f2 THEN <<>> ELSE PriorityTrends(reports, now, days),
                   top_servers |-> IF f3 THEN <<>> ELSE TopServers(reports),
                   hourly_distribution |->
                      IF f4 THEN <<>>
                      ELSE HourlyDistribution(reports, now, days),
                   period_days |-> days],
                  200))
    /\ UNCHANGED <<assigned,
                   reports, images, system_stats, r2Objects, r2Bucket,
                   faults, now>>

(***************************************************************************)
(* fetch: preflight, API key, and the route switch.                        *)
(***************************************************************************)
RoutePaths ==
    [health |-> <<"/", "a", "p", "i", "/", "h", "e", "a", "l", "t", "h">>,
     reports |-> <<"/", "a", "p", "i", "/", "r", "e", "p", "o", "r", "t",
                   "s">>,
     reportsPrefix |-> <<"/", "a", "p", "i", "/", "r", "e", "p", "o", "r",
                         "t", "s", "/">>,
     search |-> <<"/", "a", "p", "i", "/", "r", "e", "p", "o", "r", "t", "s",
                  "/", "s", "e", "a", "r", "c", "h">>,
     stats |-> <<"/", "a", "p", "i", "/", "s", "t", "a", "t", "s">>,
     analytics |-> <<"/", "a", "p", "i", "/", "a", "n", "a", "l", "y", "t",
                     "i", "c", "s">>,
     upload |-> <<"/", "a", "p", "i", "/", "u", "p", "l", "o", "a", "d">>,
     imagesPrefix |-> <<"/", "a", "p", "i", "/", "i", "m", "a", "g", "e",
                        "s", "/">>,
     root |-> <<"/">>,
     index |-> <<"/", "i", "n", "d", "e", "x", ".", "h", "t", "m", "l">>,
     apiDocs |-> <<"/", "a", "p", "i", ".", "h", "t", "m", "l">>,
     staticPrefix |-> <<"/", "s", "t", "a", "t", "i", "c", "/">>]

RequestPaths ==
    [report |-> RoutePaths.reportsPrefix \o <<"r", "e", "p", "_", "1">>,
     image |-> RoutePaths.imagesPrefix \o <<"i", "m", "g", "_", "1">>,
     static |-> RoutePaths.staticPrefix \o <<"a", "p", "p", ".", "j", "s">>,
     unknown |-> <<"/", "a", "p", "i", "/", "u", "n", "k", "n", "o", "w",
                   "n">>]

Methods == {"GET", "POST", "PUT", "DELETE", "OPTIONS"}

Paths ==
    {RoutePaths[k] : k \in DOMAIN RoutePaths}
        \cup {RequestPaths[k] : k \in DOMAIN RequestPaths}

LastSegment(path) ==
    LET slashes == {i \in 1..Len(path) : path[i] = "/"}
    IN  IF slashes = {} THEN path
        ELSE SubSeq(path, Max(slashes) + 1, Len(path))

IsPublicEndpoint(path) ==
    \/ StartsWith(path, RoutePaths.health)
    \/ path = RoutePaths.root
    \/ path = RoutePaths.index
    \/ path = RoutePaths.apiDocs
    \/ StartsWith(path, RoutePaths.staticPrefix)

Handler(name, arg) == [handler |-> name, arg |-> arg]

Route(method, path) ==
    IF path = RoutePaths.health /\ method = "GET"
        THEN Handler("handleHealthCheck", <<>>)
    ELSE IF path = RoutePaths.reports /\ method = "GET"
        THEN Handler("handleGetReports", <<>>)
    ELSE IF path = RoutePaths.reports /\ method = "POST"
        THEN Handler("handleCreateReport", <<>>)
    ELSE IF StartsWith(path, RoutePaths.reportsPrefix) /\ method = "GET"
        THEN Handler("handleGetReport", LastSegment(path))
    ELSE IF StartsWith(path, RoutePaths.reportsPrefix) /\ method = "DELETE"
        THEN Handler("handleDeleteReport", LastSegment(path))
    ELSE IF path = RoutePaths.search /\ method = "GET"
        THEN Handler("handleSearchReports", <<>>)
    ELSE IF path = RoutePaths.stats /\ method = "GET"
        THEN Handler("handleGetStats", <<>>)
    ELSE IF path = RoutePaths.analytics /\ method = "GET"
        THEN Handler("handleGetAnalytics", <<>>)
    ELSE IF path = RoutePaths.upload /\ method = "POST"
        THEN Handler("handleUploadImage", <<>>)
    ELSE IF StartsWith(path, RoutePaths.imagesPrefix)
        THEN Handler("handleGetImage", LastSegment(path))
    ELSE IF path = RoutePaths.root \/ path = RoutePaths.index
        THEN Handler("serveFrontend", <<>>)
    ELSE IF path = RoutePaths.apiDocs
        THEN Handler("serveAPIDocs", <<>>)
    ELSE IF StartsWith(path, RoutePaths.staticPrefix)
        THEN Handler("serveStatic", <<>>)
    ELSE Handler("notFound", <<>>)

Dispatch(p) ==
    /\ Accept(p)
    /\ \E method \in Methods, path \in Paths, keyOk \in BOOLEAN :
        /\ Request(p, [op |-> "route", method |-> method, path |-> path,
                       key_ok |-> keyOk])
        /\ Locals(p, IF method = "OPTIONS"
                     THEN Handler("preflight", <<>>)
                     ELSE IF ~IsPublicEndpoint(path) /\ ~keyOk
                     THEN Handler("unauthorized", <<>>)
                     ELSE Route(method, path))
    /\ pc' = [pc EXCEPT ![p] = "done"]
    /\ UNCHANGED <<assigned,
                   reports, images, system_stats, r2Objects, r2Bucket,
                   faults, now, resp>>

(***************************************************************************)
(* The invocation ends; the clock advances.                                *)
(***************************************************************************)
Finish(p) ==
    /\ pc[p] = "done"
    /\ pc' = [pc EXCEPT ![p] = "idle"]
    /\ req' = [req EXCEPT ![p] = BaseReq]
    /\ loc' = [loc EXCEPT ![p] = BaseLoc]
    /\ resp' = [resp EXCEPT ![p] = BaseResp]
    /\ UNCHANGED <<assigned,
                   reports, images, system_stats, r2Objects, r2Bucket,
                   faults, now, nreq>>

Tick ==
    /\ now < MaxClock
    /\ now' = now + 1
    /\ UNCHANGED <<assigned,
                   reports, images, system_stats, r2Objects, r2Bucket,
                   faults, pc, req, loc, resp, nreq>>

Serve(p) ==
    \/ CreateInsert(p)
    \/ CreateSelect(p)
    \/ GetReport(p)
    \/ GetReportImages(p)
    \/ DeleteImages(p)
    \/ DeleteReport(p)
    \/ ListPage(p)
    \/ ListCount(p)
    \/ SearchReports(p)
    \/ UploadJson(p)
    \/ UploadInsert(p)
    \/ UploadMultipart(p)
    \/ UploadUnsupported(p)
    \/ GetImage(p)

Step(p) == Serve(p) \/ Finish(p)

(***************************************************************************)
(* Spec: requests arrive one after the other.  SpecConc: two invocations  *)
(* run at once, each serving one request.                                  *)
(***************************************************************************)
Next == Tick \/ Step("p1")

Spec == Init /\ [][Next]_vars

NextConc == Tick \/ \E p \in Procs : Serve(p)

SpecConc == Init /\ [][NextConc]_vars

SpecFaults == InitFaults /\ [][Next]_vars

(***************************************************************************)
(* SpecLifecycle: reports are created and deleted, one request after the   *)
(* other, for long enough that a deleted report can be followed by a new   *)
(* one.                                                                    *)
(***************************************************************************)
InitLifecycle ==
    Deployed /\ faults = FALSE /\ nreq = MaxLifecycleRequests

NextLifecycle ==
    \/ Tick
    \/ CreateInsert("p1")
    \/ CreateSelect("p1")
    \/ DeleteImages("p1")
    \/ DeleteReport("p1")
    \/ Finish("p1")

SpecLifecycle == InitLifecycle /\ [][NextLifecycle]_vars

(***************************************************************************)
(* SpecAltFaults: Delete as the second worker file has it, one request     *)
(* after the other, with store calls that may throw.                       *)
(***************************************************************************)
NextAlt ==
    \/ Tick
    \/ AltDeleteImages("p1")
    \/ AltDeleteReport("p1")
    \/ AltStatsSelect("p1")
    \/ AltStatsWrite("p1")
    \/ Finish("p1")

SpecAltFaults == InitFaults /\ [][NextAlt]_vars

(***************************************************************************)
(* SpecAltConc: two invocations of that Delete at once, no store call      *)
(* throwing; the statements of the two interleave.                         *)
(***************************************************************************)
NextAltConc ==
    \E p \in Procs :
        \/ AltDeleteImages(p)
        \/ AltDeleteReport(p)
        \/ AltStatsSelect(p)
        \/ AltStatsWrite(p)

SpecAltConc == Init /\ [][NextAltConc]_vars

(***************************************************************************)
(* SpecRoute: requests of every method and path go through fetch's         *)
(* dispatch.                                                               *)
(***************************************************************************)
NextRoute == Tick \/ Dispatch("p1") \/ Finish("p1")

SpecRoute == Init /\ [][NextRoute]_vars

(***************************************************************************)
(* SpecAgg: the read operations, on the seeded store or on an emptied one, *)
(* at any time after deployment, with reports created and deleted in       *)
(* between.                                                                *)
(***************************************************************************)
InitAgg ==
    /\ reports \in {{}, SeedReports}
    /\ images = {i \in SeedImages : \E r \in reports : r.id = i.report_id}
    /\ system_stats = SeedStats
    /\ r2Objects = {}
    /\ r2Bucket = FALSE
    /\ now \in 1..MaxAggClock
    /\ assigned = {r.report_id : r \in SeedReports}
    /\ IdleAll
    /\ faults = FALSE
    /\ nreq = MaxAggRequests

NextAgg ==
    \/ GetStats("p1")
    \/ GetAnalytics("p1")
    \/ ListPage("p1")
    \/ ListCount("p1")
    \/ GetReport("p1")
    \/ GetReportImages("p1")
    \/ SearchReports("p1")
    \/ CreateInsert("p1")
    \/ CreateSelect("p1")
    \/ DeleteImages("p1")
    \/ DeleteReport("p1")
    \/ Finish("p1")

SpecAgg == InitAgg /\ [][NextAgg]_vars


(***************************************************************************)
(* Properties.                                                             *)
(***************************************************************************)
Done(p, op) == pc[p] = "done" /\ req[p].op = op

Moves(p, from, to) == pc[p] = from /\ pc'[p] = to

ValidCreate(r) ==
    /\ r.json
    /\ r.server_name # <<>>
    /\ r.status \in Statuses
    /\ r.priority \in Priorities

(* C1: a Create with a non-empty server_name and an enumerated status and  *)
(* priority whose insert succeeds adds exactly one row, answers 201, and   *)
(* returns a report with the input's status and priority and a non-empty   *)
(* id and report_id.                                                       *)
C1_CreateAnswersCreated ==
    [][\A p \in Procs :
        /\ (Moves(p, "idle", "create_select") /\ ValidCreate(req'[p]))
              => Cardinality(reports') = Cardinality(reports) + 1
        /\ (Moves(p, "create_select", "done") /\ ValidCreate(req[p]))
              => /\ resp'[p].status = 201
                 /\ resp'[p].id # ""
                 /\ resp'[p].report_id # <<>>
                 /\ resp'[p].data # <<>>
                 /\ resp'[p].data[1].status = req[p].status
                 /\ resp'[p].data[1].priority = req[p].priority]_vars

EnumViolation(r) ==
    /\ r.op = "create"
    /\ r.json
    /\ r.server_name # <<>>
    /\ r.status # ""
    /\ r.priority # ""
    /\ r.status \notin Statuses \/ r.priority \notin Priorities

(* C2: a Create whose status or priority is present but not enumerated is  *)
(* answered 400 and adds no row.                                           *)
C2_EnumViolationIsValidationError ==
    [][\A p \in Procs :
        (pc[p] = "idle" /\ EnumViolation(req'[p]))
            => /\ pc'[p] = "done"
               /\ resp'[p].status = 400
               /\ reports' = reports]_vars

(* C3: Delete(id) of an existing report that owns N >= 0 evidence rows     *)
(* removes the report and all N rows and answers with success, so that a   *)
(* later Get(id) finds nothing.                                            *)
C3_DeleteRemovesReportAndEvidence ==
    [][\A p \in Procs :
        (Moves(p, "delete_report", "done") /\ ReportsWithId(req[p].id) # {})
            => /\ resp'[p].status = 200
               /\ resp'[p].success
               /\ \A r \in reports' : r.id # req[p].id
               /\ \A i \in images' : i.report_id # req[p].id]_vars

(* C4: Delete(id) of an id that is not in the Report Store answers 404     *)
(* and leaves the Report Store as it was.                                  *)
C4_DeleteAbsentIsNotFound ==
    [][\A p \in Procs :
        /\ (Moves(p, "idle", "delete_report")
              /\ ReportsWithId(req'[p].id) = {})
              => reports' = reports
        /\ (Moves(p, "delete_report", "done")
              /\ ReportsWithId(req[p].id) = {})
              => /\ resp'[p].status = 404
                 /\ ~resp'[p].success
                 /\ reports' = reports]_vars

C4_Witness ==
    \E p \in Procs :
        /\ Done(p, "delete")
        /\ req[p].id = "rep_x"
        /\ resp[p].status = 404
        /\ reports = SeedReports

(* C5: in every reachable state, whatever the interleaving of the store    *)
(* calls of concurrent Create, Upload and Delete requests, every evidence  *)
(* row's report_id names a report that is in the Report Store.             *)
C5_NoOrphanedEvidence ==
    \A i \in images : \E r \in reports : r.id = i.report_id

C5_Witness ==
    \E p \in Procs, q \in Procs :
        /\ Done(p, "upload")
        /\ req[p].ctype = "application/json"
        /\ req[p].id = "rep_1"
        /\ resp[p].status = 500
        /\ Done(q, "delete")
        /\ req[q].id = "rep_1"
        /\ ReportsWithId("rep_1") = {}
        /\ ImagesOf("rep_1") = {}

(* C6: with T reports matching the filters, a List whose limit L is        *)
(* positive and whose offset O is not negative returns exactly             *)
(* min(L, max(0, T - O)) distinct matching rows, newest first, with        *)
(* total = T and has_more = (O + L < T).                                   *)
C6_ListPageAndMeta ==
    \A p \in Procs :
        (Done(p, "list") /\ loc[p].limit > 0 /\ loc[p].offset >= 0)
            => LET matching == ListMatching([status |-> req[p].fstatus,
                                             priority |-> req[p].fpriority,
                                             search |-> req[p].search])
                   T == Cardinality(matching)
                   L == loc[p].limit
                   O == loc[p].offset
                   rows == resp[p].data
               IN  /\ resp[p].status = 200
                   /\ Len(rows) = Min({L, Max({0, T - O})})
                   /\ \A i \in 1..Len(rows) :
                          \E r \in matching : r.id = rows[i].id
                   /\ \A i \in 1..Len(rows), j \in 1..Len(rows) :
                          /\ i < j => rows[i].created_at >= rows[j].created_at
                          /\ i # j => rows[i].id # rows[j].id
                   /\ resp[p].total = T
                   /\ resp[p].has_more = (O + L < T)

C6_Witness ==
    \E p \in Procs :
        /\ Done(p, "list")
        /\ req[p].limit = <<"2">>
        /\ req[p].offset = <<"0">>
        /\ req[p].fstatus = ""
        /\ Cardinality(reports) = 5
        /\ Len(resp[p].data) = 2
        /\ resp[p].total = 5
        /\ resp[p].has_more

NamedBy(q) == {r \in reports : IsSubstring(q, r.server_name)}

FoundIds(p) == {resp[p].data[i].id : i \in 1..Len(resp[p].data)}

FewMatches(q) ==
    Cardinality({r \in reports : SearchMatches(r, q)}) <= SearchLimit

InlineUpload(r) ==
    /\ r.op = "upload"
    /\ r.ctype = "application/json"
    /\ r.json
    /\ r.id # ""
    /\ r.filename # ""
    /\ r.image_data # <<>>

ExternalUpload(r) ==
    /\ r.op = "upload"
    /\ r.ctype = "multipart/form-data"
    /\ r2Bucket
    /\ r.id # ""
    /\ r.filename # ""

(* C8: an inline Upload whose payload is larger than the ceiling is        *)
(* answered 413 at once and persists nothing, and no step leaves an        *)
(* evidence row whose inline payload is larger than the ceiling.           *)
C8_OversizedInlineRejected ==
    [][/\ \A p \in Procs :
            (pc[p] = "idle" /\ InlineUpload(req'[p])
               /\ Len(req'[p].image_data) > InlineCeiling)
                => /\ pc'[p] = "done"
                   /\ resp'[p].status = 413
                   /\ images' = images
       /\ \A i \in images' : Len(i.image_data) <= InlineCeiling]_vars

(* C9: an Upload in either transport mode that names a report which is not *)
(* in the Report Store is answered 404, persists no evidence row and       *)
(* writes nothing to the external object store.                            *)
C9_UploadChecksReportFirst ==
    [][\A p \in Procs :
        (pc[p] = "idle"
           /\ (InlineUpload(req'[p]) \/ ExternalUpload(req'[p]))
           /\ ReportsWithId(req'[p].id) = {})
            => /\ pc'[p] = "done"
               /\ resp'[p].status = 404
               /\ images' = images
               /\ r2Objects' = r2Objects]_vars

(* C10: Get of an evidence row written by an inline Upload never answers   *)
(* with a redirect and, when the payload encodes bytes, returns exactly    *)
(* those bytes with the row's mime_type.                                   *)
C10_InlineRoundTrip ==
    \A p \in Procs :
        Done(p, "image")
            => \A i \in images :
                  (i.id = req[p].id /\ i.id \in NewImageIds)
                      => /\ resp[p].kind # "redirect"
                         /\ \A b \in UploadBodies :
                               (b.image_data = i.image_data /\ b.bytes # <<>>)
                                   => /\ resp[p].kind = "binary"
                                      /\ resp[p].bytes = b.bytes
                                      /\ resp[p].content_type = i.mime_type

Collides(id, reportId) ==
    \E r \in reports : r.id = id \/ r.report_id = reportId

(* C11: in every reachable state no two rows of the Report Store share an  *)
(* id or a report_id, and a Create whose generated id or report_id is      *)
(* already in the store is answered with an error and leaves the store as  *)
(* it was.                                                                 *)
C11_UniqueIdsAndNoOverwrite ==
    /\ [](\A r1 \in reports, r2 \in reports :
            (r1.id = r2.id \/ r1.report_id = r2.report_id) => r1 = r2)
    /\ [][\A p \in Procs :
            (pc[p] = "idle" /\ req'[p].op = "create"
               /\ Collides(loc'[p].id, loc'[p].report_id))
                => /\ pc'[p] = "done"
                   /\ resp'[p].status = 500
                   /\ ~resp'[p].success
                   /\ reports' = reports]_vars

C11_Witness ==
    \E p \in Procs :
        /\ Done(p, "create")
        /\ ValidCreate(req[p])
        /\ resp[p].status = 500
        /\ \E r \in reports :
              /\ r.report_id = loc[p].report_id
              /\ r.id # loc[p].id
              /\ r.id \in NewIds

(* C12: a Create that persists its report never gives it a report_id that  *)
(* an earlier report was created with, whether or not that report is still *)
(* in the store.                                                           *)
C12_ReportIdNeverReused ==
    [][\A p \in Procs :
        Moves(p, "idle", "create_select")
            => loc'[p].report_id \notin assigned]_vars

(* C13: the summary refresh that follows a Create or a Delete never        *)
(* changes the answer: a Create that persisted its row answers 201 and a   *)
(* Delete that removed its report answers with success.                    *)
C13_SideOperationsKeepResponse ==
    [][\A p \in Procs :
        /\ Moves(p, "create_select", "done")
              => /\ resp'[p].status = 201
                 /\ resp'[p].success
        /\ (Moves(p, "delete_report", "done") /\ reports' # reports)
              => /\ resp'[p].status = 200
                 /\ resp'[p].success]_vars

DeletesReportNext(p) == pc[p] \in {"delete_report", "alt_delete_report"}

(* C14: in Delete(id) a failed evidence deletion does not end the          *)
(* operation: the report deletion is the next store call, and when that    *)
(* call succeeds no report with that id is left.                           *)
C14_EvidenceFailureDoesNotAbort ==
    [][\A p \in Procs :
        /\ (pc[p] = "idle" /\ req'[p].op = "delete"
               /\ "delete_images" \in loc'[p].failed)
              => DeletesReportNext(p)'
        /\ (DeletesReportNext(p) /\ pc'[p] # pc[p]
               /\ "delete_report" \notin loc'[p].failed)
              => ReportsWithId(req[p].id)' = {}]_vars

(* C15: the limit and offset a List passes to the store are a positive     *)
(* and a non-negative integer, and a limit or offset that was not given,   *)
(* is not a number or is negative is replaced by 50 or by 0.               *)
C15_ListBoundsSanitised ==
    \A p \in Procs :
        pc[p] = "list_count"
            => /\ loc[p].limit > 0
               /\ loc[p].offset >= 0
               /\ (ParseInt(req[p].limit).nan \/ ParseInt(req[p].limit).val < 0)
                     => loc[p].limit = DefaultLimit
               /\ (ParseInt(req[p].offset).nan
                     \/ ParseInt(req[p].offset).val < 0)
                     => loc[p].offset = 0

Documented ==
    {[method |-> "GET", path |-> RoutePaths.reports, handler |-> "handleGetReports",
      arg |-> <<>>],
     [method |-> "POST", path |-> RoutePaths.reports,
      handler |-> "handleCreateReport", arg |-> <<>>],
     [method |-> "GET", path |-> RequestPaths.report, handler |-> "handleGetReport",
      arg |-> <<"r", "e", "p", "_", "1">>],
     [method |-> "DELETE", path |-> RequestPaths.report,
      handler |-> "handleDeleteReport", arg |-> <<"r", "e", "p", "_", "1">>],
     [method |-> "GET", path |-> RoutePaths.search,
      handler |-> "handleSearchReports", arg |-> <<>>],
     [method |-> "GET", path |-> RoutePaths.stats, handler |-> "handleGetStats",
      arg |-> <<>>],
     [method |-> "GET", path |-> RoutePaths.analytics,
      handler |-> "handleGetAnalytics", arg |-> <<>>],
     [method |-> "POST", path |-> RoutePaths.upload,
      handler |-> "handleUploadImage", arg |-> <<>>],
     [method |-> "GET", path |-> RequestPaths.image, handler |-> "handleGetImage",
      arg |-> <<"i", "m", "g", "_", "1">>],
     [method |-> "GET", path |-> RoutePaths.health,
      handler |-> "handleHealthCheck", arg |-> <<>>]}

(* C16: every (method, path) of the documented HTTP surface, sent with an  *)
(* acceptable API key, reaches the operation the documentation assigns to  *)
(* it; GET /api/reports/search reaches Search, not Get with id "search".   *)
C16_DocumentedRoutes ==
    \A p \in Procs :
        (Done(p, "route") /\ req[p].key_ok)
            => \A d \in Documented :
                  (d.method = req[p].method /\ d.path = req[p].path)
                      => /\ loc[p].handler = d.handler
                         /\ loc[p].arg = d.arg

PrimaryCalls(op) ==
    IF op = "list" THEN {"page", "count"}
    ELSE IF op = "get" THEN {"select"}
    ELSE IF op = "search" THEN {"search"}
    ELSE IF op = "upload" THEN {"select", "insert"}
    ELSE IF op = "create" THEN {"insert"}
    ELSE IF op = "delete" THEN {"delete_report"}
    ELSE {}

(* C17: a request one of whose primary store calls failed is answered 500, *)
(* never with success and empty data and never with 404.                   *)
C17_StoreFailureIsServerError ==
    \A p \in Procs :
        (pc[p] = "done" /\ loc[p].failed \cap PrimaryCalls(req[p].op) # {})
            => /\ resp[p].status = 500
               /\ ~resp[p].success

(***************************************************************************)
(* C18: the read operations (stats, analytics, List, Get, Search) leave    *)
(* the reports, the images and the system_stats row as they found them.    *)
(***************************************************************************)
ReadOps == {"stats", "analytics", "list", "get", "search"}

C18_ReadsChangeNothing ==
    [][\A p \in Procs :
         (pc'[p] # pc[p] /\ req'[p].op \in ReadOps) =>
             /\ reports' = reports
             /\ images' = images
             /\ system_stats' = system_stats]_vars

C18_Witness ==
    /\ reports # {}
    /\ images # {}
    /\ nreq = 0
    /\ Done("p1", "analytics")
    /\ resp["p1"].status = 200
    /\ Len(resp["p1"].top_servers) > 0

(***************************************************************************)
(* C19: with no report in the store, stats and analytics answer success    *)
(* with every overview and activity count 0 and with platforms, timeline,  *)
(* response_times, priority_trends, top_servers and hourly_distribution    *)
(* empty.                                                                  *)
(***************************************************************************)
AllZero(counts) == \A f \in DOMAIN counts : counts[f] = 0

C19_EmptyStoreGivesZeroes ==
    \A p \in Procs :
        /\ (Done(p, "stats") /\ reports = {}) =>
              /\ resp[p].status = 200
              /\ resp[p].success
              /\ DOMAIN resp[p].overview = DOMAIN ZeroOverview
              /\ AllZero(resp[p].overview)
              /\ DOMAIN resp[p].activity = DOMAIN ZeroActivity
              /\ AllZero(resp[p].activity)
              /\ Len(resp[p].platforms) = 0
              /\ Len(resp[p].timeline) = 0
        /\ (Done(p, "analytics") /\ reports = {}) =>
              /\ resp[p].status = 200
              /\ resp[p].success
              /\ Len(resp[p].response_times) = 0
              /\ Len(resp[p].priority_trends) = 0
              /\ Len(resp[p].top_servers) = 0
              /\ Len(resp[p].hourly_distribution) = 0

C19_Witness ==
    /\ reports = {}
    /\ Done("p1", "stats")
    /\ resp["p1"].success
    /\ resp["p1"].overview.total_reports = 0

(***************************************************************************)
(* C20: every component of the analytics answer (response_times,           *)
(* priority_trends, top_servers, hourly_distribution) counts only the      *)
(* reports created within the trailing period_days days; a report created  *)
(* before that contributes to none of them.                                *)
(***************************************************************************)
InWindow(days) ==
    {r \in reports : DateOf(r.created_at) >= DateOf(now) - days}

DatedWithin(rows, window) ==
    \A i \in DOMAIN rows :
        \E r \in window : DateOf(r.created_at) = rows[i].date

TrendsWithin(rows, window) ==
    \A i \in DOMAIN rows :
        rows[i].critical + rows[i].high + rows[i].medium + rows[i].low
            = Cardinality({r \in window :
                            DateOf(r.created_at) = rows[i].date})

ServersWithin(rows, window) ==
    \A i \in DOMAIN rows :
        rows[i].incident_count
            = Cardinality({r \in window :
                            r.server_name = rows[i].server_name})

HoursWithin(rows, window) ==
    \A i \in DOMAIN rows :
        rows[i].count
            = Cardinality({r \in window :
                            HourOf(r.created_at) = rows[i].hour})

C20_AnalyticsWithinWindow ==
    \A p \in Procs :
        Done(p, "analytics") =>
            LET window == InWindow(resp[p].period_days)
            IN  /\ DatedWithin(resp[p].response_times, window)
                /\ DatedWithin(resp[p].priority_trends, window)
                /\ TrendsWithin(resp[p].priority_trends, window)
                /\ ServersWithin(resp[p].top_servers, window)
                /\ HoursWithin(resp[p].hourly_distribution, window)

(***************************************************************************)
(* C21: Get of an existing report answers its fields with exactly the      *)
(* images whose report_id is the id asked for, in ascending created_at     *)
(* (none gives the empty list); Get of an absent id answers 404.           *)
(***************************************************************************)
AscendingByCreation(rows) ==
    \A i \in 1..Len(rows), j \in 1..Len(rows) :
        i < j => rows[i].created_at <= rows[j].created_at

C21_GetReportWithEvidence ==
    \A p \in Procs :
        Done(p, "get") =>
            IF \E r \in reports : r.id = req[p].id
            THEN /\ resp[p].status = 200
                 /\ resp[p].success
                 /\ \E r \in reports :
                       /\ r.id = req[p].id
                       /\ resp[p].data = <<[f \in DOMAIN r \ {"rowid"} |->
                                                r[f]]>>
                 /\ {resp[p].images[k].id : k \in DOMAIN resp[p].images}
                       = {i.id : i \in {e \in images :
                                           e.report_id = req[p].id}}
                 /\ Len(resp[p].images)
                       = Cardinality({e \in images :
                                        e.report_id = req[p].id})
                 /\ AscendingByCreation(resp[p].images)
            ELSE /\ resp[p].status = 404
                 /\ ~resp[p].success

C21_Witness ==
    /\ Done("p1", "get")
    /\ resp["p1"].status = 200
    /\ Len(resp["p1"].images) = 2
    /\ resp["p1"].images[1].created_at < resp["p1"].images[2].created_at

(***************************************************************************)
(* C22: a Create whose server_name, status or priority is missing or empty *)
(* answers 400 naming exactly the missing fields, and writes nothing: the  *)
(* reports and the system_stats row stay as they were.                     *)
(***************************************************************************)
Absent(r) ==
    (IF r.server_name = <<>> THEN {"server_name"} ELSE {})
        \cup (IF r.status = "" THEN {"status"} ELSE {})
        \cup (IF r.priority = "" THEN {"priority"} ELSE {})

ListedBy(q) == {r.id : r \in {x \in reports : ListMatches(x, "", "", q)}}

NewestFirst(rows) ==
    \A i \in 1..Len(rows), j \in 1..Len(rows) :
        i < j => rows[i].created_at >= rows[j].created_at

C23_SearchMatchesAsList ==
    \A p \in Procs :
        (Done(p, "search") /\ Len(req[p].q) >= 2) =>
            /\ Len(resp[p].data) <= 20
            /\ NewestFirst(resp[p].data)
            /\ Cardinality(ListedBy(req[p].q)) <= 20 =>
                  FoundIds(p) = ListedBy(req[p].q)

(***************************************************************************)
(* C24: the overview of stats holds the number of reports, the number of   *)
(* reports of each status and of each priority, and the number of images;  *)
(* after any Creates and Deletes the four status counts add up to          *)
(* total_reports, and so do the four priority counts.                      *)
(***************************************************************************)
Having(field, value) == Cardinality({r \in reports : r[field] = value})

C24_OverviewCounts ==
    \A p \in Procs :
        Done(p, "stats") =>
            LET o == resp[p].overview
            IN  /\ o.total_reports = Cardinality(reports)
                /\ o.on_progress = Having("status", "on-progress")
                /\ o.completed = Having("status", "completed")
                /\ o.pending = Having("status", "pending")
                /\ o.cancelled = Having("status", "cancelled")
                /\ o.critical = Having("priority", "critical")
                /\ o.high = Having("priority", "high")
                /\ o.medium = Having("priority", "medium")
                /\ o.low = Having("priority", "low")
                /\ o.total_images = Cardinality(images)
                /\ o.on_progress + o.completed + o.pending + o.cancelled
                      = o.total_reports
                /\ o.critical + o.high + o.medium + o.low = o.total_reports

C24_Witness ==
    /\ Done("p1", "stats")
    /\ nreq = 0
    /\ \E r \in reports : r.id \in NewIds
    /\ resp["p1"].overview.total_reports = Cardinality(SeedReports) + 1
    /\ resp["p1"].overview.total_images > 0

(***************************************************************************)
(* C25: a refresh of the summary that ran with no write in between leaves  *)
(* one system_stats row, id 1, whose total_reports, active_issues          *)
(* (on-progress or pending), completed_reports and critical_issues are the *)
(* counts over the reports, with active_issues + completed_reports at most *)
(* total_reports; a repeated refresh adds no row.                          *)
(***************************************************************************)
Refreshed(p) ==
    /\ Moves(p, "alt_stats_write", "done")
    /\ "stats_write" \notin loc'[p].failed

C25_RefreshWritesTheCounts ==
    [][\A p \in Procs :
         Refreshed(p) =>
             /\ Cardinality(system_stats') = 1
             /\ \A row \in system_stats' :
                   /\ row.id = 1
                   /\ row.total_reports = Cardinality(reports')
                   /\ row.active_issues
                         = Having("status", "on-progress")'
                             + Having("status", "pending")'
                   /\ row.completed_reports = Having("status", "completed")'
                   /\ row.critical_issues = Having("priority", "critical")'
                   /\ row.active_issues + row.completed_reports
                         <= row.total_reports]_vars

C25_Witness ==
    /\ Done("p1", "delete")
    /\ nreq = 0
    /\ resp["p1"].status = 200
    /\ loc["p1"].failed = {}
    /\ Cardinality(reports) = Cardinality(SeedReports) - 2
    /\ system_stats =
          {[id |-> 1, total_reports |-> Cardinality(reports),
            active_issues |-> Having("status", "on-progress")
                                + Having("status", "pending"),
            completed_reports |-> Having("status", "completed"),
            critical_issues |-> Having("priority", "critical")]}

(***************************************************************************)
(* C26: a Create, Delete or Upload that answers with an error status       *)
(* leaves the reports, the images and the object store as the request      *)
(* found them; a request that changed any of them answers success.         *)
(***************************************************************************)
WriteOps == {"create", "delete", "upload"}

C26_FailedWriteChangesNothing ==
    \A p \in Procs :
        (pc[p] = "done" /\ req[p].op \in WriteOps) =>
            /\ resp[p].status >= 400 =>
                  <<reports, images, r2Objects>> = req[p].before
            /\ <<reports, images, r2Objects>> # req[p].before =>
                  resp[p].status < 400 /\ resp[p].success

Quiescent == \A p \in Procs : pc[p] \in {"idle", "done"}

C28_SummaryConverges ==
    (Quiescent /\ reports # SeedReports) =>
        system_stats =
            {[id |-> 1, total_reports |-> Cardinality(reports),
              active_issues |-> Having("status", "on-progress")
                                  + Having("status", "pending"),
              completed_reports |-> Having("status", "completed"),
              critical_issues |-> Having("priority", "critical")]}

(***************************************************************************)
(* C29: the page of a List and its meta agree even when a Create or a      *)
(* Delete runs between the page query and the count query: the page has    *)
(* at most max(0, total - offset) rows, and has_more is false when the     *)
(* page holds the last matching row.                                       *)
(***************************************************************************)
HoldsLastRow(p) ==
    /\ Len(resp[p].data) > 0
    /\ loc[p].offset + Len(resp[p].data) >= Cardinality(loc[p].matching)

C29_PageAgreesWithMeta ==
    \A p \in Procs :
        (Done(p, "list") /\ loc[p].limit > 0 /\ loc[p].offset >= 0) =>
            /\ Len(resp[p].data)
                  <= Max({0, resp[p].total - loc[p].offset})
            /\ HoldsLastRow(p) => ~resp[p].has_more

(***************************************************************************)
(* C30: when several Deletes of one existing report run at once, however   *)
(* their store calls interleave, exactly one of them sees the row removed  *)
(* (changes = 1), every other answers 404, and when all are done neither   *)
(* the report nor any of its images is left.                               *)
(***************************************************************************)
DeletesTogether(id) ==
    \A p \in Procs :
        /\ Done(p, "delete")
        /\ req[p].id = id
        /\ \E r \in req[p].before[1] : r.id = id

C30_OneDeleteWins ==
    \A id \in TargetIds :
        DeletesTogether(id) =>
            /\ Cardinality({p \in Procs : loc[p].changes = 1}) = 1
            /\ \A p \in Procs :
                  loc[p].changes # 1 =>
                      /\ resp[p].status = 404
                      /\ loc[p].changes = 0
            /\ \A r \in reports : r.id # id
            /\ \A i \in images : i.report_id # id

C30_Witness ==
    /\ DeletesTogether("rep_1")
    /\ loc["p1"].changes = 0
    /\ resp["p1"].status = 404
    /\ loc["p2"].changes = 1

====
